---- MODULE Spec2Model ----
(***************************************************************************)
(* WhatsApp connection engine of rhinobotastra: the session registry       *)
(* (WhatsAppSessionService), the /sessions route handlers, the quota       *)
(* middleware and the WAHA sync service, as a state machine.               *)
(*                                                                         *)
(* A handler that awaits between a registry read and a registry write is   *)
(* split at that await (the sync of GET /sessions, the quota middleware    *)
(* followed by the create/import body); the other handlers are one action. *)
(* Answers of the external gateways are inputs drawn with \E.              *)
(***************************************************************************)
EXTENDS Integers, Sequences, FiniteSets, TLC

VARIABLES
    db,      \* whatsAppSession table: session name -> row
    reqs,    \* requests in flight: slot -> request record
    timers,  \* session names with a pending setTimeout(syncSession) after restart
    now,     \* wall clock
    resp,    \* HTTP response sent by the last step (NoResp when none)
    calls    \* calls to the external gateways issued by the last step

vars == <<db, reqs, timers, now, resp, calls>>

-----------------------------------------------------------------------------
(* Values *)

Null == "null"            \* null / undefined of a string-valued field
Undef == "undefined"      \* a field not passed at all (where the code tests !== undefined)
NullDate == 0 - 1         \* null / undefined of a Date-valued field

MaxTime == 3              \* the clock runs 0..MaxTime
QrTtl == 2                \* Date.now() + 300000, in clock units of 150 s
MaxConnections == 1       \* tenantQuota.maxConnections of every tenant

Tenants == {"t1", "t2"}
Labels == {"a"}
Providers == {"WAHA", "EVOLUTION", "QUEPASA"}
Statuses == {"WORKING", "SCAN_QR_CODE", "STOPPED", "FAILED"}
QrCodes == {"q1", "q2"}        \* pairing artifacts a gateway can return
GenTokens == {"g1", "g2"}      \* values of crypto.randomBytes(32).toString('hex')
SrvTokens == {"s1"}            \* tokens of servers the Quepasa gateway lists
Identities == {"me1"}

\* a || b of JavaScript on string-valued fields
Or(a, b) == IF a # Null THEN a ELSE b
\* a || b on Date-valued fields
OrDate(a, b) == IF a # NullDate THEN a ELSE b

\* tenantId.substring(0, 8)
tenantPrefix(t) == CASE t = "t1" -> "p1" [] t = "t2" -> "p2"

\* `${displayName}_${tenantPrefix}`
realName(displayName, tenantId) == displayName \o "_" \o tenantPrefix(tenantId)

Names == {realName(l, t) : l \in Labels, t \in Tenants}

(* Callers: req.user.role and req.tenantId as set by the auth layer. *)
User(t) == [role |-> "USER", tenantId |-> t]
Admin == [role |-> "SUPERADMIN", tenantId |-> Null]
Anon == [role |-> Null, tenantId |-> Null]
Users == {User(t) : t \in Tenants}
Callers == Users \cup {Admin, Anon}

\* authMiddleware lets a request through only when it carries a valid login
authMiddleware(c) == c.role # Null

\* req.user?.role === 'SUPERADMIN' ? undefined : req.tenantId
scopeOf(c) == IF c.role = "SUPERADMIN" THEN Null ELSE c.tenantId

-----------------------------------------------------------------------------
(* WhatsAppSessionService *)

\* The argument of createOrUpdateSession with every optional field absent.
Data(name, status, provider) ==
    [name |-> name, displayName |-> Null, status |-> status, provider |-> provider,
     config |-> Null, me |-> Null, qr |-> Null, qrExpiresAt |-> NullDate,
     tenantId |-> Null, quepasaToken |-> Null,
     interactiveCampaignEnabled |-> Undef, webhookSecret |-> Undef]

\* What getAllSessions / getSession return for a row.
View(d, n) ==
    [name |-> n,
     displayName |-> Or(d[n].displayName, n),
     status |-> d[n].status,
     provider |-> d[n].provider,
     config |-> d[n].config,
     me |-> d[n].me,
     qr |-> d[n].qr,
     qrExpiresAt |-> d[n].qrExpiresAt,
     tenantId |-> d[n].tenantId,
     quepasaToken |-> d[n].quepasaToken]

\* the where clause: { name } plus tenantId only when a tenantId is given
Visible(d, n, tenantId) ==
    n \in DOMAIN d /\ (tenantId # Null => d[n].tenantId = tenantId)

getAllSessions(d, tenantId) ==
    {View(d, n) : n \in {m \in DOMAIN d : Visible(d, m, tenantId)}}

\* getSession throws 'Sessao nao encontrada' exactly when this is false
getSessionFound(d, name, tenantId) == Visible(d, name, tenantId)

getSession(d, name, tenantId) == View(d, name)

\* base data that drops the expiry of the artifact
baseDataNoExpiry(data) ==
    [displayName |-> Or(data.displayName, data.name),
     status |-> data.status,
     provider |-> data.provider,
     config |-> data.config,
     me |-> data.me,
     qr |-> data.qr,
     qrExpiresAt |-> NullDate,
     tenantId |-> data.tenantId,
     quepasaToken |-> data.quepasaToken]

baseData(data) ==
    [displayName |-> Or(data.displayName, data.name),
     status |-> data.status,
     provider |-> data.provider,
     config |-> data.config,
     me |-> data.me,
     qr |-> data.qr,
     qrExpiresAt |-> data.qrExpiresAt,
     tenantId |-> data.tenantId,
     quepasaToken |-> data.quepasaToken]

\* an upsert whose update writes the defaults of the two webhook fields
createOrUpdateSessionDefaults(d, data) ==
    LET base == baseData(data)
        n == data.name
        flags ==
            [interactiveCampaignEnabled |-> data.interactiveCampaignEnabled = "true",
             webhookSecret |->
                 IF data.webhookSecret = Undef THEN Null ELSE data.webhookSecret]
        row == [displayName |-> base.displayName, status |-> base.status,
                provider |-> base.provider, config |-> base.config, me |-> base.me,
                qr |-> base.qr, qrExpiresAt |-> base.qrExpiresAt,
                tenantId |-> base.tenantId, quepasaToken |-> base.quepasaToken,
                interactiveCampaignEnabled |-> flags.interactiveCampaignEnabled,
                webhookSecret |-> flags.webhookSecret]
    IN  [m \in DOMAIN d \cup {n} |-> IF m = n THEN row ELSE d[m]]

\* prisma.whatsAppSession.upsert({ where: { name }, update, create })
createOrUpdateSession(d, data) ==
    LET base == baseData(data)
        n == data.name
        flags ==
            IF n \in DOMAIN d
            THEN [interactiveCampaignEnabled |->
                      IF data.interactiveCampaignEnabled # Undef
                      THEN data.interactiveCampaignEnabled = "true"
                      ELSE d[n].interactiveCampaignEnabled,
                  webhookSecret |->
                      IF data.webhookSecret # Undef
                      THEN data.webhookSecret
                      ELSE d[n].webhookSecret]
            ELSE [interactiveCampaignEnabled |-> data.interactiveCampaignEnabled = "true",
                  webhookSecret |->
                      IF data.webhookSecret = Undef THEN Null ELSE data.webhookSecret]
        row == [displayName |-> base.displayName, status |-> base.status,
                provider |-> base.provider, config |-> base.config, me |-> base.me,
                qr |-> base.qr, qrExpiresAt |-> base.qrExpiresAt,
                tenantId |-> base.tenantId, quepasaToken |-> base.quepasaToken,
                interactiveCampaignEnabled |-> flags.interactiveCampaignEnabled,
                webhookSecret |-> flags.webhookSecret]
    IN  [m \in DOMAIN d \cup {n} |-> IF m = n THEN row ELSE d[m]]

\* prisma.whatsAppSession.create({ data }) of the POST /sessions handler
prismaCreate(d, n, displayName, status, provider, tenantId, token, interactive, secret) ==
    [m \in DOMAIN d \cup {n} |->
        IF m = n
        THEN [displayName |-> displayName, status |-> status, provider |-> provider,
              config |-> Null, me |-> Null, qr |-> Null, qrExpiresAt |-> NullDate,
              tenantId |-> tenantId, quepasaToken |-> token,
              interactiveCampaignEnabled |-> interactive,
              webhookSecret |-> secret]
        ELSE d[m]]

\* a delete that removes nothing
prismaDeleteKeep(d, n) == d

\* prisma.whatsAppSession.delete({ where: { name } })
prismaDelete(d, n) == [m \in DOMAIN d \ {n} |-> d[m]]

\* WhatsAppSessionService.deleteSession throws when a tenantId is given and the
\* session is not that tenant's; otherwise it deletes the row.
deleteSessionOk(d, name, tenantId) == Visible(d, name, tenantId)

\* updateSessionStatus(name, status) without additionalData: status only
updateSessionStatus(d, name, status) ==
    [d EXCEPT ![name].status = status]

-----------------------------------------------------------------------------
(* Responses and gateway calls *)

NoResp == [op |-> "none", caller |-> Anon, name |-> Null, code |-> 0,
           sessions |-> {}, qr |-> Null, expiresAt |-> NullDate]

Reply(op, c, n, code) ==
    [op |-> op, caller |-> c, name |-> n, code |-> code,
     sessions |-> {}, qr |-> Null, expiresAt |-> NullDate]

ReplySessions(op, c, n, views) ==
    [op |-> op, caller |-> c, name |-> n, code |-> 200,
     sessions |-> views, qr |-> Null, expiresAt |-> NullDate]

ReplyQr(op, c, n, qr, expiresAt) ==
    [op |-> op, caller |-> c, name |-> n, code |-> 200,
     sessions |-> {}, qr |-> qr, expiresAt |-> expiresAt]

Call(api, op, n) == [api |-> api, op |-> op, name |-> n]

\* a gateway call whose outcome the handler catches: ok is FALSE when the
\* request threw or was answered with a non-2xx status
CallOutcome(api, op, n, ok) == [api |-> api, op |-> op, name |-> n, ok |-> ok]

\* a gateway call that was answered with a native status value
CallAnswer(api, op, n, answer) ==
    [api |-> api, op |-> op, name |-> n, answer |-> answer]

\* a status call that the gateway answered with "no such session"
CallNotFound(api, op, n) == [api |-> api, op |-> op, name |-> n, notFound |-> TRUE]

Idle == [type |-> "idle"]

Init ==
    /\ db = <<>>
    /\ reqs = [r \in 1..2 |-> Idle]
    /\ timers = {}
    /\ now = 0
    /\ resp = NoResp
    /\ calls = {}

Tick ==
    /\ now < MaxTime
    /\ now' = now + 1
    /\ resp' = NoResp
    /\ calls' = {}
    /\ UNCHANGED <<db, reqs, timers>>

-----------------------------------------------------------------------------
(* quotaMiddleware({ resource: 'connections', action: 'create' }) *)

\* tenantQuota.tenant._count.whatsappSessions
currentCount(d, tenantId) == Cardinality({n \in DOMAIN d : d[n].tenantId = tenantId})

\* the comparison with > in place of >=: one session more than the limit passes
quotaReachedStrict(d, tenantId) == currentCount(d, tenantId) > MaxConnections

\* currentCount >= maxAllowed
quotaReached(d, tenantId) == currentCount(d, tenantId) >= MaxConnections

\* "next": the middleware calls next(); "403": it answers 403 and stops
quotaMiddleware(d, c) ==
    IF c.role = "SUPERADMIN" THEN "next"
    ELSE IF c.tenantId = Null THEN "403"
    ELSE IF quotaReached(d, c.tenantId) THEN "403"
    ELSE "next"

-----------------------------------------------------------------------------
(* POST /sessions *)

WebhookSecrets == {"w1"}       \* values of generateWebhookSecret()

\* generateQuepasaToken(): 32 random bytes, never a value some session holds
FreshTokens(d) == GenTokens \ {d[n].quepasaToken : n \in DOMAIN d}

\* authMiddleware, then checkConnectionQuota; on next() the handler body runs later
CreateRequest(r, c, label, provider, interactive, bodyTenant) ==
    /\ authMiddleware(c)
    /\ reqs[r] = Idle
    /\ calls' = {}
    /\ UNCHANGED <<db, timers, now>>
    /\ IF quotaMiddleware(db, c) = "403"
       THEN /\ resp' = Reply("create", c, label, 403)
            /\ UNCHANGED reqs
       ELSE /\ resp' = NoResp
            /\ reqs' = [reqs EXCEPT ![r] =
                   [type |-> "create", caller |-> c, label |-> label,
                    provider |-> provider, interactive |-> interactive,
                    bodyTenant |-> bodyTenant]]

\* req.user?.role === 'SUPERADMIN' ? req.body.tenantId || req.tenantId : req.tenantId
createTenant(c, bodyTenant) ==
    IF c.role = "SUPERADMIN" THEN Or(bodyTenant, c.tenantId) ELSE c.tenantId

\* a lookup that never finds the row
findUniqueNever(d, name) == FALSE

\* prisma.whatsAppSession.findUnique({ where: { name: realName } }) found a row
findUnique(d, name) == name \in DOMAIN d

\* the handler body of POST /sessions, from the tenant resolution to the response
CreateBody(r) ==
    /\ reqs[r].type = "create"
    /\ reqs' = [reqs EXCEPT ![r] = Idle]
    /\ UNCHANGED <<timers, now>>
    /\ LET q == reqs[r]
           c == q.caller
           tenantId == createTenant(c, q.bodyTenant)
       IN
       IF tenantId = Null
       THEN /\ resp' = Reply("create", c, q.label, 400)
            /\ calls' = {}
            /\ UNCHANGED db
       ELSE
       LET displayName == q.label
           name == realName(displayName, tenantId)
       IN
       IF findUnique(db, name)
       THEN /\ resp' = Reply("create", c, name, 409)
            /\ calls' = {}
            /\ UNCHANGED db
       ELSE
       \E secret \in WebhookSecrets :
       LET webhookSecret == IF q.interactive THEN secret ELSE Undef
           stored == IF q.interactive THEN secret ELSE Null
           flag == IF q.interactive THEN "true" ELSE "false"
       IN
       CASE q.provider = "EVOLUTION" ->
              LET temp == prismaCreate(db, name, displayName, "SCAN_QR_CODE", "EVOLUTION",
                                       tenantId, Null, q.interactive, stored)
              IN
              /\ calls' = {Call("EVOLUTION", "createInstance", name)}
              /\ \/ \* createInstance throws
                    /\ db' = temp
                    /\ resp' = Reply("create", c, name, 500)
                 \/ \* createInstance answers, with or without qrcode.base64
                    \E qrCode \in QrCodes \cup {Null} :
                    /\ db' = createOrUpdateSession(temp,
                          [Data(name, "SCAN_QR_CODE", "EVOLUTION") EXCEPT
                              !.displayName = displayName,
                              !.tenantId = tenantId,
                              !.qr = qrCode,
                              !.qrExpiresAt = IF qrCode # Null THEN now + QrTtl ELSE NullDate,
                              !.interactiveCampaignEnabled = flag,
                              !.webhookSecret = webhookSecret])
                    /\ resp' = Reply("create", c, name, 200)
         [] q.provider = "QUEPASA" ->
              \E quepasaToken \in FreshTokens(db) :
              /\ db' = prismaCreate(db, name, displayName, "STOPPED", "QUEPASA",
                                    tenantId, quepasaToken, q.interactive, stored)
              /\ calls' = {}
              /\ resp' = Reply("create", c, name, 200)
         [] q.provider = "WAHA" ->
              LET temp == prismaCreate(db, name, displayName, "SCAN_QR_CODE", "WAHA",
                                       tenantId, Null, q.interactive, stored)
              IN
              /\ calls' = {Call("WAHA", "createSession", name)}
              /\ \/ \* WahaSyncService.createSession throws
                    /\ db' = temp
                    /\ resp' = Reply("create", c, name, 500)
                 \/ \* it returns (created, or 422 and the existing session was fetched)
                    \E wahaStatus \in Statuses, wahaConfig \in {"wahaConfig"} :
                    LET inner == createOrUpdateSession(temp,
                                   [Data(name, wahaStatus, "WAHA") EXCEPT
                                       !.config = wahaConfig])
                    IN
                    /\ db' = createOrUpdateSession(inner,
                          [Data(name, "SCAN_QR_CODE", "WAHA") EXCEPT
                              !.displayName = displayName,
                              !.tenantId = tenantId,
                              !.interactiveCampaignEnabled = flag,
                              !.webhookSecret = webhookSecret])
                    /\ resp' = Reply("create", c, name, 200)

-----------------------------------------------------------------------------
(* POST /sessions/import-evolution *)

EvoStates == {"open", "connecting", "close", "closed", "refused"}

\* statusMap[evolutionState?.toLowerCase()] || 'STOPPED'
statusMap(state) ==
    CASE state = "open" -> "WORKING"
      [] state = "connecting" -> "SCAN_QR_CODE"
      [] state = "close" -> "STOPPED"
      [] state = "closed" -> "STOPPED"
      [] OTHER -> "STOPPED"

ImportRequest(r, c, instanceName, interactive) ==
    /\ authMiddleware(c)
    /\ reqs[r] = Idle
    /\ calls' = {}
    /\ UNCHANGED <<db, timers, now>>
    /\ IF quotaMiddleware(db, c) = "403"
       THEN /\ resp' = Reply("import", c, instanceName, 403)
            /\ UNCHANGED reqs
       ELSE /\ resp' = NoResp
            /\ reqs' = [reqs EXCEPT ![r] =
                   [type |-> "import", caller |-> c, name |-> instanceName,
                    interactive |-> interactive]]

ImportBody(r) ==
    /\ reqs[r].type = "import"
    /\ reqs' = [reqs EXCEPT ![r] = Idle]
    /\ UNCHANGED <<timers, now>>
    /\ LET q == reqs[r]
           c == q.caller
       IN
       \/ \* !verifyResponse.ok
          /\ calls' = {Call("EVOLUTION_EXT", "connectionState", q.name)}
          /\ resp' = Reply("import", c, q.name, 400)
          /\ UNCHANGED db
       \/ \E state \in EvoStates, secret \in WebhookSecrets :
             /\ calls' = {CallAnswer("EVOLUTION_EXT", "connectionState", q.name, state)}
             /\ db' = createOrUpdateSession(db,
                   [Data(q.name, statusMap(state), "EVOLUTION") EXCEPT
                       !.displayName = q.name,
                       !.tenantId = c.tenantId,
                       !.interactiveCampaignEnabled =
                            IF q.interactive THEN "true" ELSE "false",
                       !.webhookSecret = secret,
                       !.config = "imported"])
             /\ resp' = Reply("import", c, q.name, 200)

-----------------------------------------------------------------------------
(* WahaSyncService *)

\* statuses the WAHA gateway reports for a session
WahaStatuses == {"WORKING", "SCAN_QR_CODE", "STOPPED", "STARTING"}

\* what GET /api/sessions/:name of WAHA answers
WahaAnswers ==
    [status : WahaStatuses \cup {Null}, me : Identities \cup {Null}, config : {"wahaConfig"}]

\* syncSession after wahaRequest answered: read the row, upsert the WAHA data
syncSessionWrite(d, sessionName, wahaSession) ==
    LET found == getSessionFound(d, sessionName, Null)
        existing == getSession(d, sessionName, Null)
    IN  createOrUpdateSession(d,
            [Data(sessionName, Or(wahaSession.status, "STOPPED"), "WAHA") EXCEPT
                !.displayName = IF found THEN Or(existing.displayName, sessionName)
                                ELSE sessionName,
                !.config = wahaSession.config,
                !.me = wahaSession.me,
                !.qr = IF found THEN existing.qr ELSE Null,
                !.qrExpiresAt = IF found THEN existing.qrExpiresAt ELSE NullDate,
                !.tenantId = IF found THEN existing.tenantId ELSE Null])

-----------------------------------------------------------------------------
(* GET /sessions/:sessionName *)

GetSessionByName(c, sessionName) ==
    /\ authMiddleware(c)
    /\ UNCHANGED <<reqs, timers, now>>
    /\ IF getSessionFound(db, sessionName, scopeOf(c))
       THEN /\ resp' = ReplySessions("getSession", c, sessionName,
                                     {getSession(db, sessionName, scopeOf(c))})
            /\ calls' = {}
            /\ UNCHANGED db
       ELSE \* fall back to WahaSyncService.syncSession(sessionName)
            /\ calls' = {Call("WAHA", "getSession", sessionName)}
            /\ \/ \* wahaRequest throws
                  /\ UNCHANGED db
                  /\ resp' = IF getSessionFound(db, sessionName, Null)
                             THEN ReplySessions("getSession", c, sessionName,
                                                {getSession(db, sessionName, Null)})
                             ELSE Reply("getSession", c, sessionName, 500)
               \/ \E wahaSession \in WahaAnswers :
                  /\ db' = syncSessionWrite(db, sessionName, wahaSession)
                  /\ resp' = ReplySessions("getSession", c, sessionName,
                                           {getSession(db', sessionName, Null)})

-----------------------------------------------------------------------------
(* POST /sessions/:sessionName/start *)

StartSession(c, sessionName) ==
    /\ authMiddleware(c)
    /\ UNCHANGED <<reqs, timers, now>>
    /\ IF ~getSessionFound(db, sessionName, scopeOf(c))
       THEN /\ resp' = Reply("start", c, sessionName, 404)
            /\ calls' = {}
            /\ UNCHANGED db
       ELSE
       LET sessionData == getSession(db, sessionName, scopeOf(c)) IN
       CASE sessionData.provider = "EVOLUTION" ->
              /\ calls' = {Call("EVOLUTION", "getQRCode", sessionName)}
              /\ \/ \* getQRCode throws
                    /\ UNCHANGED db
                    /\ resp' = Reply("start", c, sessionName, 500)
                 \/ \* getQRCode returns nothing
                    /\ UNCHANGED db
                    /\ resp' = ReplyQr("start", c, sessionName, Null, NullDate)
                 \/ \E result \in QrCodes :
                    /\ db' = createOrUpdateSession(db,
                          [Data(sessionName, "SCAN_QR_CODE", "EVOLUTION") EXCEPT
                              !.tenantId = sessionData.tenantId,
                              !.qr = result,
                              !.qrExpiresAt = now + QrTtl])
                    /\ resp' = ReplyQr("start", c, sessionName, result, NullDate)
         [] sessionData.provider = "QUEPASA" ->
              \E generated \in IF sessionData.quepasaToken = Null
                               THEN FreshTokens(db) ELSE {Null} :
              LET sessionToken == Or(sessionData.quepasaToken, generated)
                  saved == IF sessionData.quepasaToken = Null
                           THEN createOrUpdateSession(db,
                                  [Data(sessionName, sessionData.status, "QUEPASA") EXCEPT
                                      !.tenantId = sessionData.tenantId,
                                      !.quepasaToken = sessionToken])
                           ELSE db
              IN
              /\ calls' = {Call("QUEPASA", "scan", sessionName)}
              /\ \/ \* !qrResponse.ok, or fetch throws
                    /\ db' = saved
                    /\ resp' = Reply("start", c, sessionName, 500)
                 \/ \E qrBase64 \in QrCodes :
                    /\ db' = createOrUpdateSession(saved,
                          [Data(sessionName, "SCAN_QR_CODE", "QUEPASA") EXCEPT
                              !.tenantId = sessionData.tenantId,
                              !.quepasaToken = sessionToken,
                              !.qr = qrBase64,
                              !.qrExpiresAt = now + QrTtl])
                    /\ resp' = ReplyQr("start", c, sessionName, qrBase64, NullDate)
         [] OTHER ->
              /\ calls' = {Call("WAHA", "start", sessionName)}
              /\ UNCHANGED db
              /\ \/ resp' = Reply("start", c, sessionName, 500)
                 \/ resp' = Reply("start", c, sessionName, 200)

-----------------------------------------------------------------------------
(* POST /sessions/:sessionName/stop *)

StopSession(c, sessionName) ==
    /\ authMiddleware(c)
    /\ UNCHANGED <<reqs, timers, now>>
    /\ IF ~getSessionFound(db, sessionName, scopeOf(c))
       THEN /\ resp' = Reply("stop", c, sessionName, 404)
            /\ calls' = {}
            /\ UNCHANGED db
       ELSE
       LET sessionData == getSession(db, sessionName, scopeOf(c)) IN
       IF sessionData.provider = "EVOLUTION"
       THEN /\ calls' = {}
            /\ db' = createOrUpdateSession(db,
                  [Data(sessionName, "STOPPED", "EVOLUTION") EXCEPT
                      !.tenantId = sessionData.tenantId])
            /\ resp' = Reply("stop", c, sessionName, 200)
       ELSE \* WahaSyncService.stopSession
            /\ calls' = {Call("WAHA", "stop", sessionName)}
            /\ \/ /\ UNCHANGED db
                  /\ resp' = Reply("stop", c, sessionName, 500)
               \/ /\ db' = updateSessionStatus(db, sessionName, "STOPPED")
                  /\ resp' = Reply("stop", c, sessionName, 200)

-----------------------------------------------------------------------------
(* POST /sessions/:sessionName/restart: the route has no authMiddleware *)

RestartSession(c, sessionName) ==
    /\ UNCHANGED <<reqs, now>>
    /\ LET sessionProvider ==
               IF getSessionFound(db, sessionName, Null)
               THEN getSession(db, sessionName, Null).provider
               ELSE "WAHA"
       IN
       IF sessionProvider = "EVOLUTION"
       THEN /\ calls' = {Call("EVOLUTION", "restartInstance", sessionName)}
            /\ UNCHANGED timers
            /\ \/ /\ UNCHANGED db
                  /\ resp' = Reply("restart", c, sessionName, 500)
               \/ /\ db' = createOrUpdateSession(db,
                              Data(sessionName, "SCAN_QR_CODE", "EVOLUTION"))
                  /\ resp' = Reply("restart", c, sessionName, 200)
       ELSE \* WahaSyncService.restartSession
            /\ calls' = {Call("WAHA", "restart", sessionName)}
            /\ UNCHANGED db
            /\ \/ /\ UNCHANGED timers
                  /\ resp' = Reply("restart", c, sessionName, 500)
               \/ /\ timers' = timers \cup {sessionName}
                  /\ resp' = Reply("restart", c, sessionName, 200)

\* the setTimeout callback of restartSession: this.syncSession(sessionName)
RestartTimer(sessionName) ==
    /\ sessionName \in timers
    /\ timers' = timers \ {sessionName}
    /\ resp' = NoResp
    /\ calls' = {Call("WAHA", "getSession", sessionName)}
    /\ UNCHANGED <<reqs, now>>
    /\ \/ UNCHANGED db
       \/ \E wahaSession \in WahaAnswers :
             db' = syncSessionWrite(db, sessionName, wahaSession)

-----------------------------------------------------------------------------
(* DELETE /sessions/:sessionName *)

DeleteSession(c, sessionName) ==
    /\ authMiddleware(c)
    /\ UNCHANGED <<reqs, timers, now>>
    /\ IF ~getSessionFound(db, sessionName, scopeOf(c))
       THEN /\ resp' = Reply("delete", c, sessionName, 404)
            /\ calls' = {}
            /\ UNCHANGED db
       ELSE
       LET savedSession == getSession(db, sessionName, scopeOf(c))
           sessionProvider == savedSession.provider
       IN
       \* a failure of the gateway call is caught and logged in every branch
       /\ \E ok \in BOOLEAN :
          calls' =
            CASE sessionProvider = "EVOLUTION" ->
                   {CallOutcome("EVOLUTION", "deleteInstance", sessionName, ok)}
              [] sessionProvider = "QUEPASA" ->
                   IF savedSession.quepasaToken # Null
                   THEN {CallOutcome("QUEPASA", "deleteInfo", sessionName, ok)} ELSE {}
              [] OTHER -> {CallOutcome("WAHA", "deleteSession", sessionName, ok)}
       /\ db' = IF deleteSessionOk(db, sessionName,
                                   IF sessionProvider \in {"EVOLUTION", "QUEPASA"}
                                   THEN scopeOf(c) ELSE Null)
                THEN prismaDelete(db, sessionName) ELSE db
       /\ resp' = Reply("delete", c, sessionName, 200)

-----------------------------------------------------------------------------
(* GET /sessions/:sessionName/auth/qr *)

\* savedSession.qr && savedSession.qrExpiresAt && savedSession.qrExpiresAt > new Date()
savedQrValid(session, t) ==
    session.qr # Null /\ session.qrExpiresAt # NullDate /\ session.qrExpiresAt > t

GetQr(c, sessionName) ==
    /\ authMiddleware(c)
    /\ UNCHANGED <<reqs, timers, now>>
    /\ IF ~getSessionFound(db, sessionName, scopeOf(c))
       THEN /\ resp' = Reply("getQr", c, sessionName, 404)
            /\ calls' = {}
            /\ UNCHANGED db
       ELSE
       LET sessionData == getSession(db, sessionName, scopeOf(c)) IN
       IF savedQrValid(sessionData, now)
       THEN /\ resp' = ReplyQr("getQr", c, sessionName, sessionData.qr,
                               sessionData.qrExpiresAt)
            /\ calls' = {}
            /\ UNCHANGED db
       ELSE
       CASE sessionData.provider = "EVOLUTION" ->
              /\ calls' = {Call("EVOLUTION", "getQRCode", sessionName)}
              /\ \/ /\ UNCHANGED db
                    /\ resp' = Reply("getQr", c, sessionName, 500)
                 \/ \E qrCodeData \in QrCodes \cup {Null} :
                    /\ db' = createOrUpdateSession(db,
                          [Data(sessionName, "SCAN_QR_CODE", "EVOLUTION") EXCEPT
                              !.qr = qrCodeData,
                              !.qrExpiresAt = now + QrTtl,
                              !.tenantId = sessionData.tenantId])
                    /\ resp' = ReplyQr("getQr", c, sessionName, qrCodeData, now + QrTtl)
         [] sessionData.provider = "QUEPASA" ->
              \E generated \in IF sessionData.quepasaToken = Null
                               THEN FreshTokens(db) ELSE {Null} :
              LET sessionToken == Or(sessionData.quepasaToken, generated)
                  saved == IF sessionData.quepasaToken = Null
                           THEN createOrUpdateSession(db,
                                  [Data(sessionName, sessionData.status, "QUEPASA") EXCEPT
                                      !.tenantId = sessionData.tenantId,
                                      !.quepasaToken = sessionToken])
                           ELSE db
              IN
              /\ calls' = {Call("QUEPASA", "scan", sessionName)}
              /\ \/ /\ db' = saved
                    /\ resp' = Reply("getQr", c, sessionName, 500)
                 \/ \E qrBase64 \in QrCodes :
                    /\ db' = createOrUpdateSession(saved,
                          [Data(sessionName, "SCAN_QR_CODE", "QUEPASA") EXCEPT
                              !.quepasaToken = sessionToken,
                              !.qr = qrBase64,
                              !.qrExpiresAt = now + QrTtl,
                              !.tenantId = sessionData.tenantId])
                    /\ resp' = ReplyQr("getQr", c, sessionName, qrBase64, now + QrTtl)
         [] OTHER ->
              \* WAHA: the status of the gateway, or a failure of that call
              \E wahaStatus \in WahaStatuses \cup {"error"} :
              LET known == wahaStatus # "error" \/ sessionData.status = "SCAN_QR_CODE"
                  effectiveStatus == IF sessionData.status = "SCAN_QR_CODE"
                                     THEN "SCAN_QR_CODE" ELSE wahaStatus
              IN
              IF ~known
              THEN /\ calls' = {Call("WAHA", "getSession", sessionName)}
                   /\ UNCHANGED db
                   /\ resp' = Reply("getQr", c, sessionName, 400)
              ELSE IF effectiveStatus = "SCAN_QR_CODE"
              THEN /\ calls' = {Call("WAHA", "getSession", sessionName),
                                Call("WAHA", "authQr", sessionName)}
                   /\ \/ /\ UNCHANGED db
                         /\ resp' = Reply("getQr", c, sessionName, 500)
                      \/ \E qrBase64 \in QrCodes :
                         /\ db' = createOrUpdateSession(db,
                               [Data(sessionName, "SCAN_QR_CODE", "WAHA") EXCEPT
                                   !.qr = qrBase64,
                                   !.qrExpiresAt = now + QrTtl,
                                   !.tenantId = sessionData.tenantId])
                         /\ resp' = ReplyQr("getQr", c, sessionName, qrBase64, now + QrTtl)
              ELSE /\ calls' = {Call("WAHA", "getSession", sessionName)}
                   /\ UNCHANGED db
                   /\ resp' = IF effectiveStatus # "WORKING" /\ savedQrValid(sessionData, now)
                              THEN ReplyQr("getQr", c, sessionName, sessionData.qr,
                                           sessionData.qrExpiresAt)
                              ELSE Reply("getQr", c, sessionName, 400)

-----------------------------------------------------------------------------
(* GET /sessions/:sessionName/status *)

GetStatus(c, sessionName) ==
    /\ authMiddleware(c)
    /\ UNCHANGED <<db, reqs, timers, now>>
    /\ IF ~getSessionFound(db, sessionName, scopeOf(c))
       THEN /\ resp' = Reply("getStatus", c, sessionName, 404)
            /\ calls' = {}
       ELSE /\ calls' = {Call("WAHA", "getStatus", sessionName)}
            /\ \/ resp' = Reply("getStatus", c, sessionName, 500)
               \/ resp' = Reply("getStatus", c, sessionName, 200)

-----------------------------------------------------------------------------
(* PATCH /sessions/:sessionName/assign-tenant *)

AssignTenant(c, sessionName, tenantId) ==
    /\ authMiddleware(c)
    /\ UNCHANGED <<reqs, timers, now>>
    /\ calls' = {}
    /\ IF c.role # "SUPERADMIN"
       THEN /\ resp' = Reply("assignTenant", c, sessionName, 403)
            /\ UNCHANGED db
       ELSE IF ~getSessionFound(db, sessionName, Null)
       THEN /\ resp' = Reply("assignTenant", c, sessionName, 500)
            /\ UNCHANGED db
       ELSE
       LET session == getSession(db, sessionName, Null) IN
       /\ db' = createOrUpdateSession(db,
             [Data(sessionName, session.status, session.provider) EXCEPT
                 !.me = session.me,
                 !.qr = session.qr,
                 !.qrExpiresAt = session.qrExpiresAt,
                 !.tenantId = tenantId])
       /\ resp' = Reply("assignTenant", c, sessionName, 200)

-----------------------------------------------------------------------------
(* GET /sessions: registry read, then a sync of every WAHA, Quepasa and    *)
(* Evolution session of the result, then the registry read that is sent.   *)
(* The handler sits in a slot from its first read to its response; each    *)
(* gateway call is issued in one step (SyncCall) and answered in a later   *)
(* one (SyncWrite), as the handler awaits it.                              *)

Phases == <<"WAHA", "QUEPASA", "EVOLUTION">>

\* getAllSessions(tenantId).filter(s => s.provider === provider)
sessionsOf(d, tenantId, provider) ==
    {v \in getAllSessions(d, tenantId) : v.provider = provider}

\* getEvolutionCredentialsForSession: config.evolutionUrl && config.evolutionApiKey
hasCustomCreds(d, sessionName) ==
    sessionName \in DOMAIN d /\ d[sessionName].config = "imported"

\* mapping of the /health answer of Quepasa
quepasaStatus(success, text) ==
    IF success /\ text = "ready" THEN "WORKING"
    ELSE IF text \in {"starting", "qrcode"} THEN "SCAN_QR_CODE"
    ELSE IF text \in {"disconnected", "stopped"} THEN "STOPPED"
    ELSE "FAILED"

HealthTexts == {"ready", "starting", "disconnected", "unknown"}

\* stateMap[rawState?.toLowerCase()] || 'STOPPED' of the Evolution sync
stateMap(rawState) ==
    CASE rawState = "open" -> "WORKING"
      [] rawState = "connecting" -> "SCAN_QR_CODE"
      [] rawState = "close" -> "STOPPED"
      [] rawState = "closed" -> "STOPPED"
      [] OTHER -> "STOPPED"

\* evolutionApiService.getInstanceStatus: the mapped status of a session of the
\* system-wide Evolution gateway
InstanceStatuses == Statuses

SyncStart(r, c) ==
    /\ authMiddleware(c)
    /\ reqs[r] = Idle
    /\ reqs' = [reqs EXCEPT ![r] =
           [type |-> "sync", caller |-> c, tenantId |-> c.tenantId, phase |-> 1,
            pc |-> "pick", todo |-> sessionsOf(db, c.tenantId, Phases[1]),
            cur |-> Null, custom |-> FALSE, token |-> Null]]
    /\ resp' = NoResp
    /\ calls' = {}
    /\ UNCHANGED <<db, timers, now>>

\* the loop body up to the awaited gateway call
SyncCall(r) ==
    /\ reqs[r].type = "sync"
    /\ reqs[r].pc = "pick"
    /\ resp' = NoResp
    /\ UNCHANGED <<db, timers, now>>
    /\ \E session \in reqs[r].todo :
       LET rest == reqs[r].todo \ {session}
           provider == Phases[reqs[r].phase]
       IN
       CASE provider = "WAHA" ->
              /\ calls' = {Call("WAHA", "getSession", session.name)}
              /\ reqs' = [reqs EXCEPT ![r].todo = rest, ![r].cur = session,
                                      ![r].pc = "inflight"]
         [] provider = "QUEPASA" ->
              IF session.quepasaToken = Null
              THEN \* no token: not started yet, continue
                   /\ calls' = {}
                   /\ reqs' = [reqs EXCEPT ![r].todo = rest]
              ELSE /\ calls' = {Call("QUEPASA", "health", session.name)}
                   /\ reqs' = [reqs EXCEPT ![r].todo = rest, ![r].cur = session,
                                           ![r].pc = "inflight"]
         [] provider = "EVOLUTION" ->
              LET customCreds == hasCustomCreds(db, session.name) IN
              /\ calls' = {Call(IF customCreds THEN "EVOLUTION_EXT" ELSE "EVOLUTION",
                                "connectionState", session.name)}
              /\ reqs' = [reqs EXCEPT ![r].todo = rest, ![r].cur = session,
                                      ![r].custom = customCreds,
                                      ![r].pc = "inflight"]

\* the loop goes on to the next session
syncPicked(r) ==
    [reqs EXCEPT ![r].pc = "pick", ![r].cur = Null, ![r].custom = FALSE,
                 ![r].token = Null]

\* the webhook registration of the Quepasa sync, when the row asks for it
webhookCalls(d, sessionName) ==
    IF /\ sessionName \in DOMAIN d
       /\ d[sessionName].interactiveCampaignEnabled
       /\ d[sessionName].webhookSecret # Null
    THEN {Call("QUEPASA", "webhook", sessionName)} ELSE {}

\* WAHA: WahaSyncService.syncSession after the awaited wahaRequest
SyncWriteWaha(r) ==
    LET session == reqs[r].cur IN
    \/ \* wahaRequest throws (a 404 like any other non-2xx answer): syncSession
       \* catches and reads the row
       \E notFound \in BOOLEAN :
       /\ calls' = {CallOutcome("WAHA", "getSession", session.name, FALSE)}
                   \cup (IF notFound
                         THEN {CallNotFound("WAHA", "getSession", session.name)}
                         ELSE {})
       /\ UNCHANGED db
    \/ \E wahaSession \in WahaAnswers :
          /\ calls' = {}
          /\ db' = syncSessionWrite(db, session.name, wahaSession)

\* Quepasa: the answer of /health with the token of the session
SyncWriteQuepasa(r) ==
    LET session == reqs[r].cur
        sessionToken == session.quepasaToken
        notFound == CallNotFound("QUEPASA", "health", session.name)
    IN
    IF reqs[r].pc = "adopt"
    THEN \* the upsert that follows the look-up of the token, and the webhook
         /\ db' = createOrUpdateSession(db,
               [Data(session.name, "WORKING", "QUEPASA") EXCEPT
                   !.tenantId = session.tenantId,
                   !.displayName = session.displayName,
                   !.quepasaToken = reqs[r].token,
                   !.me = "me1"])
         /\ calls' = webhookCalls(db', session.name)
         /\ reqs' = syncPicked(r)
    ELSE
    \/ \* the call throws, or answers neither 400 nor 2xx
       /\ calls' = {CallOutcome("QUEPASA", "health", session.name, FALSE)}
       /\ UNCHANGED db
       /\ reqs' = syncPicked(r)
    \/ \* 400: the token is unknown to Quepasa
       IF session.status # "SCAN_QR_CODE"
       THEN /\ calls' = {notFound}
            /\ UNCHANGED db
            /\ reqs' = syncPicked(r)
       ELSE \E items \in SUBSET SrvTokens :
            LET free == {t \in items :
                            ~\E n \in DOMAIN db :
                                db[n].quepasaToken = t /\ n # session.name}
            IN
            IF free = {}
            THEN /\ calls' = {notFound, Call("QUEPASA", "listServers", session.name)}
                 /\ UNCHANGED db
                 /\ reqs' = syncPicked(r)
            ELSE \* findFirst found no other session with the token: the upsert
                 \* comes after the next await
                 \E token \in free :
                 /\ calls' = {notFound, Call("QUEPASA", "listServers", session.name)}
                 /\ UNCHANGED db
                 /\ reqs' = [reqs EXCEPT ![r].pc = "adopt", ![r].token = token]
    \/ \* 2xx
       \E success \in BOOLEAN, text \in HealthTexts, meData \in Identities \cup {Null} :
       LET mappedStatus == quepasaStatus(success, text)
           isNewlyConnected == mappedStatus = "WORKING" /\ session.status # "WORKING"
       IN
       /\ db' = createOrUpdateSession(db,
             [Data(session.name, mappedStatus, "QUEPASA") EXCEPT
                 !.tenantId = session.tenantId,
                 !.quepasaToken = sessionToken,
                 !.me = meData])
       /\ calls' = {CallAnswer("QUEPASA", "health", session.name, text)}
                   \cup (IF isNewlyConnected THEN webhookCalls(db', session.name) ELSE {})
       /\ reqs' = syncPicked(r)

\* Evolution: connection state (and instance info) answered, then the upsert.
\* The instance info is not critical: when its call fails, or the instance
\* has no ownerJid/owner, meData stays undefined.
SyncWriteEvolution(r) ==
    LET session == reqs[r].cur
        write(mappedStatus, owner) ==
            createOrUpdateSession(db,
                [Data(session.name, mappedStatus, "EVOLUTION") EXCEPT
                    !.displayName = session.displayName,
                    !.me = IF mappedStatus = "WORKING" THEN owner ELSE Null,
                    !.qr = session.qr,
                    !.qrExpiresAt = session.qrExpiresAt,
                    !.tenantId = session.tenantId])
        api == IF reqs[r].custom THEN "EVOLUTION_EXT" ELSE "EVOLUTION"
        failed == CallOutcome(api, "connectionState", session.name, FALSE)
        infoFailed == CallOutcome(api, "fetchInstances", session.name, FALSE)
        info(owner) == CallAnswer(api, "fetchInstances", session.name, owner)
    IN
    \E infoOk \in BOOLEAN, field \in Identities \cup {Null} :
    LET owner == IF infoOk THEN field ELSE Null
        fetchInstances == IF infoOk THEN info(field) ELSE infoFailed
    IN
    /\ ~infoOk => field = Null
    /\ IF reqs[r].custom
       THEN \/ \* the state call fails or is not ok (a 404 like any other
               \* answer): mappedStatus stays 'STOPPED'
               \E notFound \in BOOLEAN :
               /\ calls' = {fetchInstances, failed}
                           \cup (IF notFound
                                 THEN {CallNotFound(api, "connectionState",
                                                    session.name)}
                                 ELSE {})
               /\ db' = write("STOPPED", owner)
            \/ \E rawState \in EvoStates :
               /\ calls' = {fetchInstances,
                            CallAnswer(api, "connectionState", session.name, rawState)}
               /\ db' = write(stateMap(rawState), owner)
       ELSE \/ \* getInstanceStatus throws: caught per session, nothing written
               /\ calls' = {failed}
               /\ UNCHANGED db
            \/ \E mappedStatus \in InstanceStatuses :
               /\ calls' = {fetchInstances,
                            CallAnswer(api, "getInstanceStatus", session.name,
                                       mappedStatus)}
               /\ db' = write(mappedStatus, owner)

SyncWrite(r) ==
    /\ reqs[r].type = "sync"
    /\ reqs[r].pc \in {"inflight", "adopt"}
    /\ resp' = NoResp
    /\ UNCHANGED <<timers, now>>
    /\ CASE Phases[reqs[r].phase] = "WAHA" ->
              SyncWriteWaha(r) /\ reqs' = syncPicked(r)
         [] Phases[reqs[r].phase] = "QUEPASA" -> SyncWriteQuepasa(r)
         [] Phases[reqs[r].phase] = "EVOLUTION" ->
              SyncWriteEvolution(r) /\ reqs' = syncPicked(r)

\* the loop of one provider is over: read the registry again for the next one
SyncNextPhase(r) ==
    /\ reqs[r].type = "sync"
    /\ reqs[r].pc = "pick"
    /\ reqs[r].todo = {}
    /\ reqs[r].phase < Len(Phases)
    /\ reqs' = [reqs EXCEPT ![r].phase = @ + 1,
                            ![r].todo = sessionsOf(db, reqs[r].tenantId,
                                                   Phases[reqs[r].phase + 1])]
    /\ resp' = NoResp
    /\ calls' = {}
    /\ UNCHANGED <<db, timers, now>>

\* a handler that answers as soon as one session has been handled, whatever
\* is left of the batch
SyncDoneEarly(r) ==
    /\ reqs[r].type = "sync"
    /\ reqs[r].pc = "pick"
    /\ reqs' = [reqs EXCEPT ![r] = Idle]
    /\ resp' = ReplySessions("list", reqs[r].caller, Null,
                             getAllSessions(db, reqs[r].tenantId))
    /\ calls' = {}
    /\ UNCHANGED <<db, timers, now>>

\* res.json(await getAllSessions(tenantId))
SyncDone(r) ==
    /\ reqs[r].type = "sync"
    /\ reqs[r].pc = "pick"
    /\ reqs[r].todo = {}
    /\ reqs[r].phase = Len(Phases)
    /\ reqs' = [reqs EXCEPT ![r] = Idle]
    /\ resp' = ReplySessions("list", reqs[r].caller, Null,
                             getAllSessions(db, reqs[r].tenantId))
    /\ calls' = {}
    /\ UNCHANGED <<db, timers, now>>

-----------------------------------------------------------------------------
(* Specifications.  Each one runs the handlers a group of properties is    *)
(* about, with the callers and inputs that reach their cases.              *)

T1 == "t1"
T2 == "t2"
Owner == User(T1)
Other == User(T2)
N1 == realName("a", T1)
N2 == realName("a", T2)

\* the sequential life of one Quepasa session and its token
NextToken ==
    \/ CreateRequest(1, Owner, "a", "QUEPASA", FALSE, Null)
    \/ CreateBody(1)
    \/ StartSession(Owner, N1)
    \/ StopSession(Owner, N1)
    \/ RestartSession(Owner, N1)
    \/ RestartTimer(N1)
    \/ GetQr(Owner, N1)
    \/ \E t \in Tenants : AssignTenant(Admin, N1, t)
    \/ SyncStart(1, Owner)
    \/ SyncCall(1)
    \/ SyncWrite(1)
    \/ SyncNextPhase(1)
    \/ SyncDone(1)

SpecToken == Init /\ [][NextToken]_vars

\* a session of tenant t1 and the reads of its owner and of another tenant
NextRead ==
    \/ \E p \in Providers : CreateRequest(1, Owner, "a", p, FALSE, Null)
    \/ CreateBody(1)
    \/ \E c \in {Owner, Other} : GetSessionByName(c, N1)
    \/ \E c \in {Owner, Other} : GetQr(c, N1)
    \/ \E c \in {Owner, Other} : GetStatus(c, N1)
    \/ \E c \in {Owner, Other} : SyncStart(1, c)
    \/ SyncCall(1)
    \/ SyncWrite(1)
    \/ SyncNextPhase(1)
    \/ SyncDone(1)

SpecRead == Init /\ [][NextRead]_vars

\* a session of tenant t1 and the mutating requests of its owner, of another
\* tenant, of the administrator and of a caller without login
NextScope ==
    \/ \E p \in Providers : CreateRequest(1, Owner, "a", p, FALSE, Null)
    \/ CreateBody(1)
    \/ ImportRequest(1, Other, N1, FALSE)
    \/ ImportBody(1)
    \/ \E c \in {Owner, Other} : StartSession(c, N1)
    \/ \E c \in {Owner, Other} : StopSession(c, N1)
    \/ \E c \in {Owner, Other, Anon} : RestartSession(c, N1)
    \/ RestartTimer(N1)
    \/ \E c \in {Owner, Other} : DeleteSession(c, N1)
    \/ \E c \in {Other, Admin} : AssignTenant(c, N1, T2)

SpecScope == Init /\ [][NextScope]_vars

\* pairing artifacts over time
NextQr ==
    \/ Tick
    \/ \E p \in {"EVOLUTION", "QUEPASA"} : CreateRequest(1, Owner, "a", p, FALSE, Null)
    \/ CreateBody(1)
    \/ StartSession(Owner, N1)
    \/ GetQr(Owner, N1)
    \/ GetSessionByName(Owner, N1)
    \/ SyncStart(1, Owner)
    \/ SyncCall(1)
    \/ SyncWrite(1)
    \/ SyncNextPhase(1)
    \/ SyncDone(1)

SpecQr == Init /\ [][NextQr]_vars

\* concurrent create and import requests of one tenant
NextQuota ==
    \/ \E r \in 1..2, p \in Providers : CreateRequest(r, Owner, "a", p, FALSE, Null)
    \/ \E r \in 1..2 : CreateBody(r)
    \/ \E r \in 1..2, n \in Names : ImportRequest(r, Owner, n, FALSE)
    \/ \E r \in 1..2 : ImportBody(r)
    \/ \E n \in Names : DeleteSession(Owner, n)

SpecQuota == Init /\ [][NextQuota]_vars

\* two overlapping GET /sessions requests and a delete
NextSync ==
    \/ \E p \in Providers : CreateRequest(1, Owner, "a", p, FALSE, Null)
    \/ CreateBody(1)
    \/ DeleteSession(Owner, N1)
    \/ \E r \in 1..2 : SyncStart(r, Owner)
    \/ \E r \in 1..2 : SyncCall(r)
    \/ \E r \in 1..2 : SyncWrite(r)
    \/ \E r \in 1..2 : SyncNextPhase(r)
    \/ \E r \in 1..2 : SyncDone(r)

SpecSync == Init /\ [][NextSync]_vars

\* one GET /sessions over created and imported sessions of every provider
NextRecon ==
    \/ \E p \in Providers : CreateRequest(1, Owner, "a", p, FALSE, Null)
    \/ CreateBody(1)
    \/ ImportRequest(1, Owner, N1, FALSE)
    \/ ImportBody(1)
    \/ StartSession(Owner, N1)
    \/ StopSession(Owner, N1)
    \/ DeleteSession(Owner, N1)
    \/ SyncStart(1, Owner)
    \/ SyncCall(1)
    \/ SyncWrite(1)
    \/ SyncNextPhase(1)
    \/ SyncDone(1)

SpecRecon == Init /\ [][NextRecon]_vars

\* sessions of two tenants and the GET /sessions of the administrator, whose
\* batch holds them all
NextBatch ==
    \/ \E c \in {Owner, Other}, p \in Providers :
          CreateRequest(1, c, "a", p, FALSE, Null)
    \/ CreateBody(1)
    \/ SyncStart(2, Admin)
    \/ SyncCall(2)
    \/ SyncWrite(2)
    \/ SyncNextPhase(2)
    \/ SyncDone(2)

SpecBatch == Init /\ [][NextBatch]_vars

\* two overlapping GET /sessions requests over a session that asked for the
\* interactive webhook
NextHook ==
    \/ \E p \in Providers : CreateRequest(1, Owner, "a", p, TRUE, Null)
    \/ CreateBody(1)
    \/ \E r \in 1..2 : SyncStart(r, Owner)
    \/ \E r \in 1..2 : SyncCall(r)
    \/ \E r \in 1..2 : SyncWrite(r)
    \/ \E r \in 1..2 : SyncNextPhase(r)
    \/ \E r \in 1..2 : SyncDone(r)

SpecHook == Init /\ [][NextHook]_vars

\* two overlapping GET /sessions requests over the Quepasa sessions of two
\* tenants
NextAdopt ==
    \/ \E c \in {Owner, Other} : CreateRequest(1, c, "a", "QUEPASA", FALSE, Null)
    \/ CreateBody(1)
    \/ SyncStart(1, Owner)
    \/ SyncStart(2, Other)
    \/ \E r \in 1..2 : SyncCall(r)
    \/ \E r \in 1..2 : SyncWrite(r)
    \/ \E r \in 1..2 : SyncNextPhase(r)
    \/ \E r \in 1..2 : SyncDone(r)

SpecAdopt == Init /\ [][NextAdopt]_vars

\* a session created with interactive campaigns on, then synced and run
\* through its lifecycle
NextFlags ==
    \/ \E p \in Providers : CreateRequest(1, Owner, "a", p, TRUE, Null)
    \/ CreateBody(1)
    \/ StartSession(Owner, N1)
    \/ StopSession(Owner, N1)
    \/ RestartSession(Owner, N1)
    \/ RestartTimer(N1)
    \/ SyncStart(2, Owner)
    \/ SyncCall(2)
    \/ SyncWrite(2)
    \/ SyncNextPhase(2)
    \/ SyncDone(2)

SpecFlags == Init /\ [][NextFlags]_vars

Next ==
    \/ NextFlags
    \/ NextAdopt
    \/ NextHook
    \/ NextBatch
    \/ NextRecon
    \/ NextToken
    \/ NextRead
    \/ NextScope
    \/ NextQr
    \/ NextQuota
    \/ NextSync

Spec == Init /\ [][Next]_vars

-----------------------------------------------------------------------------
(* connectionService.validateHmacSignature                                 *)
(* A string is a sequence of characters; the prefix 'sha256=' is one       *)
(* element. A digest has DigestBytes bytes, written with the hex digits    *)
(* "0" and "a".                                                            *)

DigestBytes == 2               \* the 32 bytes of a SHA-256 digest, scaled down
MaxBody == 1                   \* longest webhook body
MaxSig == 6                    \* longest signature header

Prefix == "sha256="
HexChars == {"0", "a", "A"}
SigChars == HexChars \cup {"g", Prefix}
BodyBytes == {"x", "y"}
HmacSecrets == {"w1", "w2"}

SeqsUpTo(S, n) == UNION {[1..k -> S] : k \in 0..n}
Bodies == SeqsUpTo(BodyBytes, MaxBody)

\* the signature header: missing, or a string
Headers == [missing : {TRUE}, value : {<<>>}]
           \cup [missing : {FALSE}, value : SeqsUpTo(SigChars, MaxSig)]

\* value of a hex digit, upper or lower case
hexVal(ch) == IF ch = "0" THEN 0 ELSE 10

RECURSIVE bodyIndex(_)
bodyIndex(body) ==
    IF body = <<>> THEN 0
    ELSE 2 * bodyIndex(SubSeq(body, 1, Len(body) - 1))
         + (IF body[Len(body)] = "x" THEN 1 ELSE 2)

RECURSIVE toHex(_, _)
toHex(n, len) ==
    IF len = 0 THEN <<>>
    ELSE toHex(n \div 2, len - 1) \o <<IF n % 2 = 0 THEN "0" ELSE "a">>

\* crypto.createHmac('sha256', secret).update(body).digest('hex'): lower-case
\* hex of a digest that differs for every (secret, body)
createHmac(secret, body) ==
    toHex(2 * bodyIndex(body) + (IF secret = "w1" THEN 0 ELSE 1), 2 * DigestBytes)

\* signature.replace('sha256=', ''): the first occurrence is removed
replace(signature) ==
    LET I == {i \in 1..Len(signature) : signature[i] = Prefix} IN
    IF I = {} THEN signature
    ELSE LET i == CHOOSE j \in I : \A k \in I : j <= k IN
         SubSeq(signature, 1, i - 1) \o SubSeq(signature, i + 1, Len(signature))

\* Buffer.from(s, 'hex'): the bytes of the pairs of hex digits, up to the first
\* character that is no hex digit; a trailing single digit is dropped
RECURSIVE bufferFromHex(_)
bufferFromHex(s) ==
    IF Len(s) < 2 THEN <<>>
    ELSE IF s[1] \in HexChars /\ s[2] \in HexChars
         THEN <<16 * hexVal(s[1]) + hexVal(s[2])>>
              \o bufferFromHex(SubSeq(s, 3, Len(s)))
         ELSE <<>>

\* crypto.timingSafeEqual throws on buffers of different length
timingSafeEqual(a, b) ==
    IF Len(a) # Len(b) THEN "throws" ELSE IF a = b THEN "true" ELSE "false"

\* the body of the try block; a missing header makes signature.replace throw
hmacTry(header, body, secret) ==
    IF header.missing THEN "throws"
    ELSE timingSafeEqual(bufferFromHex(createHmac(secret, body)),
                         bufferFromHex(replace(header.value)))

\* try { ... } catch (error) { return false }
validateHmacSignature(header, body, secret) == hmacTry(header, body, secret) = "true"

\* one call of validateHmacSignature on the request of slot r
ValidateHmac(r) ==
    /\ reqs[r].type = "hmac"
    /\ resp' = [op |-> "validateHmacSignature",
                signature |-> reqs[r].signature,
                body |-> reqs[r].body,
                secret |-> reqs[r].secret,
                result |-> validateHmacSignature(reqs[r].signature, reqs[r].body,
                                                 reqs[r].secret)]
    /\ reqs' = [reqs EXCEPT ![r] = Idle]
    /\ UNCHANGED <<db, timers, now, calls>>

\* a webhook with any header, body and session secret arrives
InitHmac ==
    /\ db = <<>>
    /\ \E header \in Headers, body \in Bodies, secret \in HmacSecrets :
          reqs = [r \in 1..2 |->
                    IF r = 1
                    THEN [type |-> "hmac", signature |-> header, body |-> body,
                          secret |-> secret]
                    ELSE Idle]
    /\ timers = {}
    /\ now = 0
    /\ resp = NoResp
    /\ calls = {}

NextHmac == ValidateHmac(1)

SpecHmac == InitHmac /\ [][NextHmac]_vars

-----------------------------------------------------------------------------
(* POST /sessions: the derivation of the session name, on strings *)

PrefixLen == 8            \* tenantId.substring(0, 8)
MaxLabel == 2             \* longest name of a request body
IdChars == {"c", "d"}
LabelChars == {"a", " "}

\* tenant ids of PrefixLen + 1 characters that differ in the first or in the
\* last character
IdPad == [i \in 1..(PrefixLen - 1) |-> "0"]
TenantIds == {<<x>> \o IdPad \o <<y>> : x \in IdChars, y \in IdChars}

\* the names of request bodies that pass `if (!name)`
BodyNames == SeqsUpTo(LabelChars, MaxLabel) \ {<<>>}

\* String.prototype.substring(start, end)
substring(s, start, end) ==
    SubSeq(s, start + 1, IF end < Len(s) THEN end ELSE Len(s))

\* String.prototype.trim()
RECURSIVE trim(_)
trim(s) ==
    IF s = <<>> THEN s
    ELSE IF Head(s) = " " THEN trim(Tail(s))
    ELSE IF s[Len(s)] = " " THEN trim(SubSeq(s, 1, Len(s) - 1))
    ELSE s

\* const realName = `${displayName}_${tenantPrefix}`
realNameOf(name, tenantId) ==
    trim(name) \o <<"_">> \o substring(tenantId, 0, PrefixLen)

\* the handler derives the names of the two create requests of slot r
DeriveNames(r) ==
    /\ reqs[r].type = "names"
    /\ resp' = [op |-> "realName",
                first |-> reqs[r].first,
                second |-> reqs[r].second,
                realName1 |-> realNameOf(reqs[r].first.name, reqs[r].first.tenantId),
                realName2 |-> realNameOf(reqs[r].second.name, reqs[r].second.tenantId)]
    /\ reqs' = [reqs EXCEPT ![r] = Idle]
    /\ UNCHANGED <<db, timers, now, calls>>

\* two create requests with any name and any tenant
InitNames ==
    /\ db = <<>>
    /\ \E first, second \in [name : BodyNames, tenantId : TenantIds] :
          reqs = [r \in 1..2 |->
                    IF r = 1
                    THEN [type |-> "names", first |-> first, second |-> second]
                    ELSE Idle]
    /\ timers = {}
    /\ now = 0
    /\ resp = NoResp
    /\ calls = {}

NextNames == DeriveNames(1)

SpecNames == InitNames /\ [][NextNames]_vars

-----------------------------------------------------------------------------
(* useWhatsAppSessions: the polling hook of the client.  Slot 1 holds the     *)
(* fetch of listSessions, slot 2 the fetch of syncSessions; resp is the       *)
(* response the hook applied last with setSessions.                           *)

\* a fetch in flight, issued at time t
Fetch(kind, t) == [type |-> kind, issuedAt |-> t]

\* setSessions(data.map(processSession)) with the response of a request
SetSessions(q) == [op |-> "setSessions", kind |-> q.type, issuedAt |-> q.issuedAt]

\* time passes in the browser
ClientTick ==
    /\ now < MaxTime
    /\ now' = now + 1
    /\ UNCHANGED <<db, reqs, timers, resp, calls>>

\* listSessions: abort the fetch of the previous call (its promise rejects
\* with AbortError and the call returns), then fetch with the new signal
ListSessions ==
    /\ "listInterval" \in timers
    /\ reqs' = [reqs EXCEPT ![1] = Fetch("listSessions", now)]
    /\ calls' = {Call("BACKEND", "GET /api/waha/sessions", Null)}
    /\ UNCHANGED <<db, timers, now, resp>>

\* the fetch of listSessions settles: a 2xx response is applied, anything
\* else is logged
ListSettles ==
    /\ reqs[1].type = "listSessions"
    /\ reqs' = [reqs EXCEPT ![1] = Idle]
    /\ \/ resp' = SetSessions(reqs[1])
       \/ UNCHANGED resp
    /\ calls' = {}
    /\ UNCHANGED <<db, timers, now>>

\* syncSessions: fetch with no signal; the hook keeps no reference to it
SyncSessions ==
    /\ "syncInterval" \in timers
    /\ reqs[2] = Idle
    /\ reqs' = [reqs EXCEPT ![2] = Fetch("syncSessions", now)]
    /\ calls' = {Call("BACKEND", "POST /api/waha/sessions/sync", Null)}
    /\ UNCHANGED <<db, timers, now, resp>>

SyncSettles ==
    /\ reqs[2].type = "syncSessions"
    /\ reqs' = [reqs EXCEPT ![2] = Idle]
    /\ \/ resp' = SetSessions(reqs[2])
       \/ UNCHANGED resp
    /\ calls' = {}
    /\ UNCHANGED <<db, timers, now>>

\* the effect has run: both intervals are set and the first sync is in flight
InitPoll ==
    /\ db = <<>>
    /\ reqs = [r \in 1..2 |-> IF r = 2 THEN Fetch("syncSessions", 0) ELSE Idle]
    /\ timers = {"listInterval", "syncInterval"}
    /\ now = 0
    /\ resp = NoResp
    /\ calls = {}

NextPoll ==
    \/ ClientTick
    \/ ListSessions
    \/ ListSettles
    \/ SyncSessions
    \/ SyncSettles

SpecPoll == InitPoll /\ [][NextPoll]_vars

-----------------------------------------------------------------------------
(* WhatsAppConnectionsPage: the QR modal.  While the modal of a session is    *)
(* open, timers holds the 2-second interval of its polling effect.            *)

\* the interval of the polling effect: qrModalOpen && currentQRSession
qrModalPoll(sessionName) == [timer |-> "qrModalPoll", name |-> sessionName]

\* openQRModal: the list the page holds has an unexpired qr for the session,
\* or GET /auth/qr has just answered with one
OpenQrModal(sessionName) ==
    /\ \/ /\ resp.op = "getQr"
          /\ resp.name = sessionName
          /\ resp.qr # Null
       \/ \E v \in resp.sessions :
             v.name = sessionName /\ v.qr # Null /\ v.qrExpiresAt > now
    /\ timers' = timers \cup {qrModalPoll(sessionName)}
    /\ UNCHANGED <<db, reqs, now, resp, calls>>

\* one tick of the interval: pollSessionStatus, answered by
\* GET /sessions/:sessionName/status, then the test of updated?.status.
\* The status comes from WAHA, which is up and reports the status the
\* registry holds for its own sessions, and knows no session of another
\* provider.
PollSessionStatus(c, sessionName) ==
    /\ qrModalPoll(sessionName) \in timers
    /\ authMiddleware(c)
    /\ UNCHANGED <<db, reqs, now>>
    /\ IF ~getSessionFound(db, sessionName, scopeOf(c))
       THEN /\ resp' = Reply("getStatus", c, sessionName, 404)
            /\ calls' = {}
            /\ UNCHANGED timers
       ELSE IF db[sessionName].provider # "WAHA"
       THEN \* wahaRequest throws, the handler answers 500, the hook returns null
            /\ resp' = Reply("getStatus", c, sessionName, 500)
            /\ calls' = {CallNotFound("WAHA", "getStatus", sessionName)}
            /\ UNCHANGED timers
       ELSE /\ resp' = Reply("getStatus", c, sessionName, 200)
            /\ calls' = {CallAnswer("WAHA", "getStatus", sessionName,
                                    db[sessionName].status)}
            /\ timers' = IF db[sessionName].status = "WORKING"
                         THEN timers \ {qrModalPoll(sessionName)}
                         ELSE timers

\* a session is created, its QR is fetched and shown, and GET /sessions syncs it
NextModal ==
    \/ \E p \in Providers : CreateRequest(1, Owner, "a", p, FALSE, Null)
    \/ CreateBody(1)
    \/ StartSession(Owner, N1)
    \/ GetQr(Owner, N1)
    \/ OpenQrModal(N1)
    \/ PollSessionStatus(Owner, N1)
    \/ SyncStart(1, Owner)
    \/ SyncCall(1)
    \/ SyncWrite(1)
    \/ SyncNextPhase(1)
    \/ SyncDone(1)

\* setInterval(..., 2000): the poll of an open modal keeps firing
SpecModal == Init /\ [][NextModal]_vars /\ WF_vars(PollSessionStatus(Owner, N1))

-----------------------------------------------------------------------------
(* SettingsService: the GlobalSettings row behind a cache.  In this part db   *)
(* holds the row under "globalSettings", timers holds the cache entry         *)
(* (cachedSettings with cacheExpiry; empty when cachedSettings is null),      *)
(* slot 1 a getSettings call and slot 2 an updateSettings call.               *)

CACHE_TTL_MS == 2         \* 30 000 ms, in clock units of 15 s
WahaHosts == {"h1", "h2"}      \* values an administrator saves
DefaultHost == "empty"         \* wahaHost: ''

\* prisma.globalSettings.findFirst()
findFirst(d) == IF "globalSettings" \in DOMAIN d THEN d["globalSettings"] ELSE Null

\* the table with the row set to a value
withSettings(settings) == [k \in {"globalSettings"} |-> settings]

\* this.cachedSettings && Date.now() < this.cacheExpiry
cacheValid(cache, t) == \E e \in cache : t < e.cacheExpiry

\* getSettings up to its first await: a valid cache entry is returned at once
GetSettings(r) ==
    /\ reqs[r] = Idle
    /\ calls' = {}
    /\ UNCHANGED <<db, timers, now>>
    /\ IF cacheValid(timers, now)
       THEN /\ resp' = [op |-> "getSettings", cached |-> TRUE,
                        settings |-> (CHOOSE e \in timers : TRUE).cachedSettings]
            /\ UNCHANGED reqs
       ELSE /\ resp' = NoResp
            /\ reqs' = [reqs EXCEPT ![r] = [type |-> "getSettings", pc |-> "findFirst",
                                            settings |-> Null]]

\* the database answers findFirst; a missing row is created with the defaults
GetSettingsRead(r) ==
    /\ reqs[r].type = "getSettings"
    /\ reqs[r].pc = "findFirst"
    /\ db' = IF findFirst(db) = Null THEN withSettings(DefaultHost) ELSE db
    /\ reqs' = [reqs EXCEPT ![r].pc = "fill", ![r].settings = findFirst(db')]
    /\ resp' = NoResp
    /\ calls' = {}
    /\ UNCHANGED <<timers, now>>

\* the continuation: fill the cache with what was read, and return it
GetSettingsFill(r) ==
    /\ reqs[r].type = "getSettings"
    /\ reqs[r].pc = "fill"
    /\ timers' = {[cachedSettings |-> reqs[r].settings,
                   cacheExpiry |-> now + CACHE_TTL_MS]}
    /\ resp' = [op |-> "getSettings", cached |-> FALSE, settings |-> reqs[r].settings]
    /\ reqs' = [reqs EXCEPT ![r] = Idle]
    /\ calls' = {}
    /\ UNCHANGED <<db, now>>

\* updateSettings up to its first await
UpdateSettings(r, wahaHost) ==
    /\ reqs[r] = Idle
    /\ reqs' = [reqs EXCEPT ![r] = [type |-> "updateSettings", pc |-> "findFirst",
                                    data |-> wahaHost]]
    /\ resp' = NoResp
    /\ calls' = {}
    /\ UNCHANGED <<db, timers, now>>

\* the database answers findFirst and then runs the update (or the create)
UpdateSettingsWrite(r) ==
    /\ reqs[r].type = "updateSettings"
    /\ reqs[r].pc = "findFirst"
    /\ db' = withSettings(reqs[r].data)
    /\ reqs' = [reqs EXCEPT ![r].pc = "written"]
    /\ resp' = NoResp
    /\ calls' = {}
    /\ UNCHANGED <<timers, now>>

\* the continuation: clear the cache and return
UpdateSettingsDone(r) ==
    /\ reqs[r].type = "updateSettings"
    /\ reqs[r].pc = "written"
    /\ timers' = {}
    /\ resp' = [op |-> "updateSettings", cached |-> FALSE, settings |-> reqs[r].data]
    /\ reqs' = [reqs EXCEPT ![r] = Idle]
    /\ calls' = {}
    /\ UNCHANGED <<db, now>>

NextSettings ==
    \/ ClientTick
    \/ GetSettings(1)
    \/ GetSettingsRead(1)
    \/ GetSettingsFill(1)
    \/ \E wahaHost \in WahaHosts : UpdateSettings(2, wahaHost)
    \/ UpdateSettingsWrite(2)
    \/ UpdateSettingsDone(2)

SpecSettings == Init /\ [][NextSettings]_vars

-----------------------------------------------------------------------------
(* wahaRequest and the WAHA configuration. In this section timers holds the
   one record that getWahaConfig and wahaRequest read: the stored wahaHost and
   wahaApiKey, and the four variables of the process environment.           *)

Empty == "empty"               \* '' (or an unset variable)

WahaEnvs ==
    [envBaseUrl : {Empty, "h1"}, envDefaultHost : {Empty, "h1"},
     envApiKey : {Empty, "k1"}, envDefaultApiKey : {Empty, "k1"}]

wahaConfigOf(env, host, apiKey) ==
    [host |-> host, apiKey |-> apiKey,
     envBaseUrl |-> env.envBaseUrl, envDefaultHost |-> env.envDefaultHost,
     envApiKey |-> env.envApiKey, envDefaultApiKey |-> env.envDefaultApiKey]

getWahaConfig(t) == CHOOSE cfg \in t : TRUE

\* a || b || c || ''
firstSet(a, b, c) == IF a # Empty THEN a ELSE IF b # Empty THEN b ELSE c

WAHA_BASE_URL(cfg) == firstSet(cfg.host, cfg.envBaseUrl, cfg.envDefaultHost)

WAHA_API_KEY(cfg) == firstSet(cfg.apiKey, cfg.envApiKey, cfg.envDefaultApiKey)

\* if (!WAHA_BASE_URL || !WAHA_API_KEY) throw, before any fetch
configMissing(cfg) == WAHA_BASE_URL(cfg) = Empty \/ WAHA_API_KEY(cfg) = Empty

\* an administrator saves wahaHost and wahaApiKey
SaveWahaSettings(host, apiKey) ==
    /\ timers' = {[getWahaConfig(timers) EXCEPT !.host = host, !.apiKey = apiKey]}
    /\ timers' # timers
    /\ resp' = NoResp
    /\ calls' = {}
    /\ UNCHANGED <<db, reqs, now>>

\* POST /sessions for WAHA: WahaSyncService.createSession goes through
\* wahaRequest, after the row has been inserted
WahaCreateBody(r) ==
    IF ~(/\ configMissing(getWahaConfig(timers))
         /\ reqs[r].type = "create"
         /\ reqs[r].provider = "WAHA")
    THEN CreateBody(r)
    ELSE
    /\ reqs' = [reqs EXCEPT ![r] = Idle]
    /\ UNCHANGED <<timers, now>>
    /\ calls' = {}
    /\ LET q == reqs[r]
           c == q.caller
           tenantId == createTenant(c, q.bodyTenant)
       IN
       IF tenantId = Null
       THEN /\ resp' = Reply("create", c, q.label, 400)
            /\ UNCHANGED db
       ELSE
       LET displayName == q.label
           name == realName(displayName, tenantId)
       IN
       IF findUnique(db, name)
       THEN /\ resp' = Reply("create", c, name, 409)
            /\ UNCHANGED db
       ELSE
       \E secret \in WebhookSecrets :
       /\ db' = prismaCreate(db, name, displayName, "SCAN_QR_CODE", "WAHA",
                             tenantId, Null, q.interactive,
                             IF q.interactive THEN secret ELSE Null)
       /\ resp' = Reply("create", c, name, 500)

\* POST /sessions/:sessionName/start: the WAHA branch calls wahaRequest
WahaStart(c, sessionName) ==
    IF ~(/\ configMissing(getWahaConfig(timers))
         /\ getSessionFound(db, sessionName, scopeOf(c))
         /\ getSession(db, sessionName, scopeOf(c)).provider = "WAHA")
    THEN StartSession(c, sessionName)
    ELSE
    /\ authMiddleware(c)
    /\ calls' = {}
    /\ resp' = Reply("start", c, sessionName, 500)
    /\ UNCHANGED <<db, reqs, timers, now>>

\* POST /sessions/:sessionName/stop: WahaSyncService.stopSession throws at
\* wahaRequest, updateSessionStatus is not reached
WahaStop(c, sessionName) ==
    IF ~(/\ configMissing(getWahaConfig(timers))
         /\ getSessionFound(db, sessionName, scopeOf(c))
         /\ getSession(db, sessionName, scopeOf(c)).provider = "WAHA")
    THEN StopSession(c, sessionName)
    ELSE
    /\ authMiddleware(c)
    /\ calls' = {}
    /\ resp' = Reply("stop", c, sessionName, 500)
    /\ UNCHANGED <<db, reqs, timers, now>>

\* the WAHA loop of GET /sessions: syncSession throws at wahaRequest, the
\* loop logs it and goes on
WahaSyncCall(r) ==
    IF ~(/\ configMissing(getWahaConfig(timers))
         /\ reqs[r].type = "sync"
         /\ Phases[reqs[r].phase] = "WAHA")
    THEN SyncCall(r)
    ELSE
    /\ reqs[r].pc = "pick"
    /\ \E session \in reqs[r].todo :
          reqs' = [reqs EXCEPT ![r].todo = reqs[r].todo \ {session}]
    /\ resp' = NoResp
    /\ calls' = {}
    /\ UNCHANGED <<db, timers, now>>

InitWaha ==
    /\ db = <<>>
    /\ reqs = [r \in 1..2 |-> Idle]
    /\ timers \in {{wahaConfigOf(env, Empty, Empty)} : env \in WahaEnvs}
    /\ now = 0
    /\ resp = NoResp
    /\ calls = {}

NextWaha ==
    \/ \E host \in {Empty, "h1"}, apiKey \in {Empty, "k1"} : SaveWahaSettings(host, apiKey)
    \/ CreateRequest(1, Owner, "a", "WAHA", FALSE, Null)
    \/ WahaCreateBody(1)
    \/ WahaStart(Owner, N1)
    \/ WahaStop(Owner, N1)
    \/ SyncStart(2, Owner)
    \/ WahaSyncCall(2)
    \/ SyncWrite(2)
    \/ SyncNextPhase(2)
    \/ SyncDone(2)

SpecWaha == InitWaha /\ [][NextWaha]_vars

-----------------------------------------------------------------------------
(* Properties.                                                             *)

\* C1: a token that is set is never set to null and never replaced by a
\* write that does not itself supply a token; the one write that supplies
\* one is the Quepasa sync (a GET /sessions slot in flight completes).
SyncWriteStep ==
    \E r \in 1..2 : /\ reqs[r].type = "sync"
                    /\ reqs[r].pc \in {"inflight", "adopt"}
                    /\ reqs'[r] # reqs[r]

C1_TokenPreserved ==
    [][\A n \in DOMAIN db \cap DOMAIN db' :
          db[n].quepasaToken # Null =>
             \/ db'[n].quepasaToken = db[n].quepasaToken
             \/ SyncWriteStep /\ db'[n].quepasaToken # Null]_vars

\* C2: two GET /sessions requests never have a gateway call in flight for
\* the same session name at the same time.
C2_SingleRemoteCall ==
    \A r1, r2 \in 1..2 :
       (/\ r1 # r2
        /\ reqs[r1].type = "sync" /\ reqs[r1].pc = "inflight"
        /\ reqs[r2].type = "sync" /\ reqs[r2].pc = "inflight")
       => reqs[r1].cur.name # reqs[r2].cur.name

\* C3: a session is deleted while a GET /sessions request has a gateway call
\* in flight for it; when the answer arrives the sync does not apply it, and
\* no record of that name exists afterwards.
C3_NoResurrection ==
    [][\A r \in 1..2 :
          (/\ reqs[r].type = "sync"
           /\ reqs[r].pc = "inflight"
           /\ resp.op = "delete" /\ resp.code = 200
           /\ resp.name = reqs[r].cur.name
           /\ reqs[r].cur.name \notin DOMAIN db
           /\ reqs'[r] # reqs[r])
          => reqs[r].cur.name \notin DOMAIN db']_vars

\* C4: a read by a caller who is not SUPERADMIN returns no session that
\* belongs to another tenant; reading another tenant's session by name
\* returns none.
ReadOps == {"list", "getSession", "getQr", "getStatus"}

C4_ReadIsolation ==
    (resp.op \in ReadOps /\ resp.caller.role # "SUPERADMIN") =>
       /\ \A v \in resp.sessions :
             v.tenantId \in Tenants => v.tenantId = resp.caller.tenantId
       /\ (/\ resp.code = 200
           /\ resp.op \in {"getQr", "getStatus"}
           /\ resp.name \in DOMAIN db
           /\ db[resp.name].tenantId \in Tenants)
          => db[resp.name].tenantId = resp.caller.tenantId

\* C5: a mutating request of a caller who is not SUPERADMIN, on a session
\* whose tenant is not the caller's, changes no record and makes no gateway
\* call, and is not answered with success.
MutatingOps == {"create", "import", "start", "stop", "restart", "delete",
                "assignTenant"}

C5_MutationScoped ==
    [][(/\ resp'.op \in MutatingOps
        /\ resp'.caller.role # "SUPERADMIN"
        /\ resp'.name \in DOMAIN db
        /\ db[resp'.name].tenantId # resp'.caller.tenantId)
       => /\ db' = db
          /\ calls' = {}
          /\ resp'.code # 200]_vars

\* C6: the tenant of an existing session changes only in an assign-tenant
\* request of a SUPERADMIN, and never to null.
C6_TenantStable ==
    [][\A n \in DOMAIN db \cap DOMAIN db' :
          db'[n].tenantId # db[n].tenantId =>
             /\ resp'.op = "assignTenant"
             /\ resp'.caller.role = "SUPERADMIN"
             /\ db'[n].tenantId # Null]_vars

\* C7: start and fetch-QR on a session that awaits pairing with a QR that has
\* not expired return that QR, make no gateway call and leave the record as
\* it is.
C7_QrReissueIdempotent ==
    [][(/\ resp'.op \in {"start", "getQr"}
        /\ resp'.name \in DOMAIN db
        /\ db[resp'.name].status = "SCAN_QR_CODE"
        /\ db[resp'.name].qr # Null
        /\ now < db[resp'.name].qrExpiresAt)
       => /\ resp'.qr = db[resp'.name].qr
          /\ calls' = {}
          /\ db' = db]_vars

\* C8: no response carries a QR whose expiry time has passed.
C8_NoExpiredQr ==
    /\ \A v \in resp.sessions : v.qr # Null => ~(now > v.qrExpiresAt)
    /\ (resp.qr # Null /\ resp.expiresAt # NullDate) => ~(now > resp.expiresAt)

\* C9: a create request of a tenant user whose tenant already holds
\* maxConnections sessions is not admitted to the handler; it is answered 403
\* and that step writes no record, makes no gateway call and starts nothing.
C9_QuotaRejects ==
    [][/\ \A r \in 1..2 :
            (/\ reqs[r] = Idle
             /\ reqs'[r].type = "create"
             /\ reqs'[r].caller.role # "SUPERADMIN")
            => currentCount(db, reqs'[r].caller.tenantId) < MaxConnections
       /\ (resp'.op = "create" /\ resp'.code = 403)
            => /\ db' = db
               /\ calls' = {}
               /\ reqs' = reqs
               /\ timers' = timers]_vars

\* a tenant user at the limit has just been answered 403 to a create request
C9_Witness ==
    /\ resp.op = "create"
    /\ resp.code = 403
    /\ resp.caller.role = "USER"
    /\ currentCount(db, resp.caller.tenantId) >= MaxConnections

\* C10: no tenant ever holds more sessions than maxConnections.
C10_QuotaNeverExceeded ==
    \A t \in Tenants : currentCount(db, t) <= MaxConnections

derivedName(rs) ==
    IF rs.code = 403 THEN realName(rs.name, rs.caller.tenantId) ELSE rs.name

signed(header, body, secret) ==
    /\ ~header.missing
    /\ header.value \in {createHmac(secret, body), <<Prefix>> \o createHmac(secret, body)}

\* the headers that differ from header in one character
sigMutants(header) ==
    {[header EXCEPT !.value[i] = ch] :
        i \in {j \in 1..Len(header.value) : header.value[j] # Prefix},
        ch \in SigChars \ {Prefix}} \ {header}

\* the bodies that differ from body in one byte
bodyMutants(body) ==
    {[body EXCEPT ![i] = ch] : i \in 1..Len(body), ch \in BodyBytes} \ {body}

\* C13: the correctly computed signature is accepted, and no pair that differs
\* from it in one byte of the body or of the signature is accepted.
C13_HmacExact ==
    (/\ resp.op = "validateHmacSignature"
     /\ signed(resp.signature, resp.body, resp.secret)) =>
             /\ resp.result
             /\ \A h \in sigMutants(resp.signature) :
                   ~validateHmacSignature(h, resp.body, resp.secret)
             /\ \A b \in bodyMutants(resp.body) :
                   ~validateHmacSignature(resp.signature, b, resp.secret)

\* a header of the form [sha256=]<2 * DigestBytes hex digits>
wellFormed(header) ==
    /\ ~header.missing
    /\ LET v == header.value
           hex == IF v # <<>> /\ v[1] = Prefix THEN Tail(v) ELSE v
       IN  /\ Len(hex) = 2 * DigestBytes
           /\ \A i \in 1..Len(hex) : hex[i] \in HexChars

\* C14: a missing, empty or malformed signature header, and a signature made
\* with another secret, are all answered false.
C14_HmacRejectsMalformed ==
    (/\ resp.op = "validateHmacSignature"
     /\ \/ ~wellFormed(resp.signature)
        \/ \E other \in HmacSecrets \ {resp.secret} :
              signed(resp.signature, resp.body, other))
    => resp.result = FALSE

\* the outcomes of failed status calls that the last step observed
failedStatusCalls(cs) ==
    {k \in cs : /\ "ok" \in DOMAIN k
                /\ k.op \in {"getSession", "health", "connectionState"}
                /\ ~k.ok}

\* C15: a sync step whose status call failed leaves status, qr and
\* qrExpiresAt of that session as they were.
C15_SyncFailureKeepsState ==
    [][\A k \in failedStatusCalls(calls') :
          k.name \in DOMAIN db =>
             /\ k.name \in DOMAIN db'
             /\ db'[k.name].status = db[k.name].status
             /\ db'[k.name].qr = db[k.name].qr
             /\ db'[k.name].qrExpiresAt = db[k.name].qrExpiresAt]_vars

\* C16: a failed status call leaves the rest of the batch in place and sends
\* no answer; a GET /sessions moves on to the next provider, and ends, only
\* when every session it listed has been handled; and it ends with the list
\* of the registry.
C16_BatchIsolation ==
    [][\A r \in 1..2 :
          reqs[r].type = "sync" =>
             /\ (reqs[r].pc = "inflight" /\ failedStatusCalls(calls') # {}) =>
                   /\ reqs'[r].type = "sync"
                   /\ reqs'[r].todo = reqs[r].todo
                   /\ reqs'[r].phase = reqs[r].phase
                   /\ resp' = NoResp
             /\ (reqs'[r].type # "sync" \/ reqs'[r].phase # reqs[r].phase) =>
                   /\ reqs[r].pc = "pick"
                   /\ reqs[r].todo = {}
             /\ reqs'[r] = Idle =>
                   /\ reqs[r].phase = Len(Phases)
                   /\ resp' = ReplySessions("list", reqs[r].caller, Null,
                                            getAllSessions(db', reqs[r].tenantId))]_vars

\* the status call of one session of a batch has just failed and another
\* session of the batch is still to be synced
C16_Witness ==
    \E r \in 1..2 :
       /\ reqs[r].type = "sync"
       /\ reqs[r].todo # {}
       /\ failedStatusCalls(calls) # {}

\* the native status values the providers' mappings name
KnownNative == {"open", "connecting", "close", "closed",
                "ready", "starting", "qrcode", "disconnected", "stopped"}

\* C17: when a gateway answers with a native status value that no mapping
\* names, the status stored for the session is FAILED.
C17_UnknownMapsToFailed ==
    [][\A k \in calls' :
          (/\ "answer" \in DOMAIN k
           /\ k.op \in {"connectionState", "health"}
           /\ k.answer \notin KnownNative
           /\ k.name \in DOMAIN db')
          => db'[k.name].status = "FAILED"]_vars

\* C18: the status stored for a session is always one of WORKING,
\* SCAN_QR_CODE, STOPPED and FAILED.
C18_StatusEnum ==
    \A n \in DOMAIN db : db[n].status \in Statuses

\* C19: identity goes with WORKING only: a stop, restart, start or QR request
\* that takes a session with an identity out of WORKING clears the identity.
C19_IdentityOnlyConnected ==
    [][\A n \in DOMAIN db \cap DOMAIN db' :
          (/\ resp'.op \in {"stop", "restart", "start", "getQr"}
           /\ db[n].status = "WORKING"
           /\ db[n].me # Null
           /\ db'[n].status # "WORKING")
          => db'[n].me = Null]_vars

\* C20: after a sync step that stored a session as WORKING from the gateway's
\* answer, the row holds no qr and no qrExpiresAt.
C20_QrClearedOnConnected ==
    [][\A r \in 1..2 :
          (/\ reqs[r].type = "sync"
           /\ reqs[r].pc = "inflight"
           /\ reqs'[r] # reqs[r]
           /\ failedStatusCalls(calls') = {}
           /\ reqs[r].cur.name \in DOMAIN db'
           /\ db'[reqs[r].cur.name].status = "WORKING")
          => /\ db'[reqs[r].cur.name].qr = Null
             /\ db'[reqs[r].cur.name].qrExpiresAt = NullDate]_vars

\* the Evolution answers of the last step that report a connected instance:
\* state "open" from /instance/connectionState, or WORKING from
\* getInstanceStatus
observedOpen(cs) ==
    {k \in cs : /\ "answer" \in DOMAIN k
                /\ \/ k.op = "connectionState" /\ k.answer = "open"
                   \/ k.op = "getInstanceStatus" /\ k.answer = "WORKING"}

\* C21: a sync step that observed an Evolution session as open stores it as
\* WORKING with an identity.
C21_OpenIsConnectedWithIdentity ==
    [][\A r \in 1..2 : \A k \in observedOpen(calls') :
          (/\ reqs[r].type = "sync"
           /\ reqs[r].pc = "inflight"
           /\ reqs'[r] # reqs[r]
           /\ k.name = reqs[r].cur.name)
          => /\ k.name \in DOMAIN db'
             /\ db'[k.name].status = "WORKING"
             /\ db'[k.name].me # Null]_vars

\* C22: a session that holds a qr also holds a qrExpiresAt.
C22_QrHasExpiry ==
    \A n \in DOMAIN db : db[n].qr # Null => db[n].qrExpiresAt # NullDate

\* a start or QR request has just answered for a session that holds a qr
C22_Witness ==
    /\ resp.op \in {"start", "getQr"}
    /\ resp.name \in DOMAIN db
    /\ db[resp.name].qr # Null
    /\ db[resp.name].qrExpiresAt # NullDate

\* C23: the provider of a session that exists before and after a step is
\* the same.
C23_ProviderStable ==
    [][\A n \in DOMAIN db \cap DOMAIN db' : db'[n].provider = db[n].provider]_vars

\* C24: no step of a GET /sessions request (the route listSessions polls)
\* calls a gateway or writes the registry.
C24_ListIsReadOnly ==
    [][\A r \in 1..2 :
          (reqs[r].type = "sync" /\ reqs'[r] # reqs[r])
          => (calls' = {} /\ db' = db)]_vars

\* C25: when the qr of a session was written after a sync read the session,
\* the write of that sync does not put the qr it read back.
C25_NoStaleOverwrite ==
    [][\A r \in 1..2 :
          (/\ reqs[r].type = "sync"
           /\ reqs[r].pc = "inflight"
           /\ reqs'[r] # reqs[r]
           /\ reqs[r].cur.name \in DOMAIN db \cap DOMAIN db'
           /\ reqs[r].cur.provider = "EVOLUTION"
           /\ db[reqs[r].cur.name].qr # reqs[r].cur.qr)
          => db'[reqs[r].cur.name].qr = db[reqs[r].cur.name].qr]_vars

\* C26: a sync, start, stop, restart, QR or assign-tenant step leaves the
\* config of every session that exists before and after it unchanged.
C26_ConfigPreserved ==
    [][\A n \in DOMAIN db \cap DOMAIN db' :
          (\/ resp'.op \in {"start", "stop", "restart", "getQr", "assignTenant"}
           \/ SyncWriteStep)
          => db'[n].config = db[n].config]_vars

\* C27: every Evolution call a step makes for a session whose config holds
\* per-session credentials goes to the per-session gateway.
C27_CustomCredentialsUsed ==
    [][\A k \in calls' :
          (/\ k.api \in {"EVOLUTION", "EVOLUTION_EXT"}
           /\ k.name \in DOMAIN db
           /\ hasCustomCreds(db, k.name))
          => k.api = "EVOLUTION_EXT"]_vars

\* the webhook registrations the last step made for a session
webhookFor(cs, n) == {k \in cs : k.op = "webhook" /\ k.name = n}

\* C28: a sync step that takes a Quepasa session with the interactive webhook
\* enabled from another status to WORKING registers the webhook, and a sync
\* step that finds the session already WORKING does not register it again.
C28_WebhookOncePerTransition ==
    [][\A r \in 1..2 :
          (/\ reqs[r].type = "sync"
           /\ reqs[r].pc = "inflight"
           /\ reqs'[r] # reqs[r]
           /\ reqs[r].cur.name \in DOMAIN db \cap DOMAIN db'
           /\ reqs[r].cur.provider = "QUEPASA"
           /\ db'[reqs[r].cur.name].interactiveCampaignEnabled)
          => LET n == reqs[r].cur.name
                 transition == db[n].status # "WORKING" /\ db'[n].status = "WORKING"
             IN  /\ transition => webhookFor(calls', n) # {}
                 /\ webhookFor(calls', n) # {} => transition]_vars

\* C29: two create requests of different tenants never derive the same name.
C29_NamesUnique ==
    (/\ resp.op = "realName"
     /\ resp.first.tenantId # resp.second.tenantId)
    => resp.realName1 # resp.realName2

\* C30: the hook never replaces the applied response by the response of a
\* request that was issued before the request of the applied one.
C30_NoStaleResponse ==
    [][(/\ resp.op = "setSessions"
        /\ resp'.op = "setSessions"
        /\ resp' # resp)
       => resp'.issuedAt >= resp.issuedAt]_vars

\* C31: a create of a tenant user answered 200 leaves a record of the new
\* name owned by the caller's tenant, with status SCAN_QR_CODE or STOPPED;
\* with SCAN_QR_CODE the record holds a qr that expires QrTtl after the write.
C31_CreateLeavesPairableRecord ==
    [][(/\ resp'.op = "create"
        /\ resp'.code = 200
        /\ resp'.caller.role = "USER")
       => /\ resp'.name \notin DOMAIN db
          /\ resp'.name \in DOMAIN db'
          /\ db'[resp'.name].tenantId = resp'.caller.tenantId
          /\ db'[resp'.name].status \in {"SCAN_QR_CODE", "STOPPED"}
          /\ db'[resp'.name].status = "SCAN_QR_CODE"
                => /\ db'[resp'.name].qr # Null
                   /\ db'[resp'.name].qrExpiresAt = now + QrTtl]_vars

\* C32: a sync step whose status call was answered "no such session" stores
\* FAILED for a session that is in the registry, and writes nothing for one
\* that is not.
C32_NotFoundMapsToFailed ==
    [][\A k \in calls' :
          "notFound" \in DOMAIN k
          => /\ k.name \in DOMAIN db => /\ k.name \in DOMAIN db'
                                        /\ db'[k.name].status = "FAILED"
             /\ k.name \notin DOMAIN db => k.name \notin DOMAIN db']_vars

\* C33: when the modal of a session is open and the registry holds the
\* session as WORKING, the modal is closed at some later time.
C33_ModalCloses ==
    (/\ qrModalPoll(N1) \in timers
     /\ N1 \in DOMAIN db
     /\ db[N1].status = "WORKING")
    ~> (qrModalPoll(N1) \notin timers)

\* C34: a step of GET /sessions or of GET /sessions/:sessionName adds no
\* record to the registry.
C34_SyncCreatesNothing ==
    [][(resp'.op = "getSession" \/ SyncWriteStep)
       => DOMAIN db' \subseteq DOMAIN db]_vars

\* C35: a getSettings call answered from the cache while no updateSettings
\* call is running returns the row the database holds.
C35_CacheNotStale ==
    [][(/\ resp'.op = "getSettings"
        /\ resp'.cached
        /\ reqs[2] = Idle)
       => resp'.settings = findFirst(db)]_vars

\* C36: no two sessions hold the token of the same Quepasa server.
C36_TokenUnique ==
    \A n1, n2 \in DOMAIN db :
       (n1 # n2 /\ db[n1].quepasaToken \in SrvTokens)
       => db[n1].quepasaToken # db[n2].quepasaToken


\* C37: a step that keeps a session keeps its displayName; no sync, start,
\* stop, restart, QR fetch or tenant assignment resets it to the internal name.
C37_DisplayNameKept ==
    [][\A n \in DOMAIN db \cap DOMAIN db' :
          db'[n].displayName = db[n].displayName]_vars

\* C38: when a create has just reported the failure of the provider call, the
\* registry holds no record of the new name.
C38_FailedCreateLeavesNothing ==
    (resp.op = "create" /\ resp.code = 500) => resp.name \notin DOMAIN db

\* C39: a step that keeps a session keeps its interactiveCampaignEnabled and
\* webhookSecret; creation is the only write here that passes them.
C39_WebhookFieldsKept ==
    [][\A n \in DOMAIN db \cap DOMAIN db' :
          /\ db'[n].interactiveCampaignEnabled = db[n].interactiveCampaignEnabled
          /\ db'[n].webhookSecret = db[n].webhookSecret]_vars

\* a session with the webhook on and a secret has been written by an upsert
\* that passed neither field
C39_Witness ==
    \E n \in DOMAIN db :
       /\ db[n].interactiveCampaignEnabled
       /\ db[n].webhookSecret # Null
       /\ db[n].displayName = n

\* C40: while the resolved base URL or API key is empty, a create, start or
\* stop that fails and a WAHA sync iteration issue no HTTP request and leave
\* the registry as it was.
C40_ConfigMissingLeavesRegistry ==
    [][(/\ configMissing(getWahaConfig(timers))
        /\ timers' = timers
        /\ \/ (resp'.op \in {"create", "start", "stop"} /\ resp'.code = 500)
           \/ (/\ reqs[2].type = "sync"
               /\ reqs[2].pc = "pick"
               /\ Phases[reqs[2].phase] = "WAHA"
               /\ reqs'[2].type = "sync"
               /\ reqs'[2].todo # reqs[2].todo))
       => (calls' = {} /\ db' = db)]_vars

====
